---- MODULE Spec2Model ----
(***************************************************************************)
(* Model of the Video Subtitler backend (src/main.py): the /api/burn       *)
(* handler with its style encoder (hex_to_ass) and its probe / render /    *)
(* fallback orchestration of ffmpeg, and the placeholder SRT generator     *)
(* (_generate_demo_srt with its timestamp formatter ts).                   *)
(*                                                                         *)
(* Text is modelled as a sequence of one-character strings.  Seconds are   *)
(* modelled exactly, as an integer number of ticks (TicksPerSecond ticks   *)
(* to the second); opacities exactly, as a numerator over OpDen.           *)
(***************************************************************************)
EXTENDS Integers, Sequences, FiniteSets, TLC

VARIABLES
    \* ---- one /api/burn request ----
    pc,             \* where the handler is
    file,           \* the upload: [filename, content]
    video,          \* content of the temp file video_path
    out,            \* content of the temp file out_path
    force_style,    \* the style directive handed to the engine
    used_ffmpeg,    \* the handler's local used_ffmpeg
    probeOutcome,   \* what `ffmpeg -version` did in this request
    renderOutcome,  \* what the ffmpeg render did in this request
    probeCalls,     \* number of `ffmpeg -version` invocations
    renderCalls,    \* number of render invocations
    response,       \* what the handler returned or raised
    \* ---- the style encoder on its own ----
    color,          \* form field `color`
    bg_opacity,     \* form field `bg_opacity`, numerator over OpDen
    styled,         \* result of lines 187-201 for (color, bg_opacity)
    \* ---- the background colour of two requests ----
    opacityA, opacityB, backA, backB,
    \* ---- _generate_demo_srt ----
    duration,       \* the argument, in ticks
    i,              \* loop index of the for loop (next cue to emit)
    cues,           \* (start, end) of the cues emitted so far, in ticks
    lines,          \* the list `lines`
    srt             \* the returned text

burnVars  == <<pc, file, video, out, force_style, used_ffmpeg, probeOutcome,
               renderOutcome, probeCalls, renderCalls, response>>
styleVars == <<color, bg_opacity, styled>>
pairVars  == <<opacityA, opacityB, backA, backB>>
srtVars   == <<duration, i, cues, lines, srt>>
vars      == <<burnVars, styleVars, pairVars, srtVars>>

(***************************************************************************)
(* Bounds                                                                  *)
(***************************************************************************)
MaxColorLen == 6    \* longest colour text after its leading '#' characters
MaxHashes   == 2    \* most leading '#' characters of a colour text
OpDen       == 256  \* opacities are k / OpDen
TicksPerMs  == 2    \* time resolution: ticks to the millisecond
MaxHours    == 1    \* durations reach MaxHours hours (and one of 100 h)

TicksPerSecond == 1000 * TicksPerMs

(***************************************************************************)
(* Text helpers                                                            *)
(***************************************************************************)
UpperHex == <<"0","1","2","3","4","5","6","7","8","9","A","B","C","D","E","F">>
LowerHex == <<"0","1","2","3","4","5","6","7","8","9","a","b","c","d","e","f">>

IsHexDigit(c) == \E k \in 1..16 : UpperHex[k] = c \/ LowerHex[k] = c
HexVal(c)     == (CHOOSE k \in 1..16 : UpperHex[k] = c \/ LowerHex[k] = c) - 1

Min(a, b) == IF a <= b THEN a ELSE b
Max(a, b) == IF a >= b THEN a ELSE b

\* str.lstrip('#'): every leading '#' is removed
RECURSIVE lstrip_hash(_)
lstrip_hash(s) ==
    IF s # <<>> /\ Head(s) = "#" THEN lstrip_hash(Tail(s)) ELSE s

\* int(s, 16) of a two-character text: two hex digits, or a sign or a blank
\* beside one hex digit; anything else raises ValueError
int16(s) ==
    LET a == s[1]
        b == s[2]
    IN  IF IsHexDigit(a) /\ IsHexDigit(b)
          THEN [raised |-> FALSE, value |-> 16 * HexVal(a) + HexVal(b)]
        ELSE IF a = "+" /\ IsHexDigit(b)
          THEN [raised |-> FALSE, value |-> HexVal(b)]
        ELSE IF a = "-" /\ IsHexDigit(b)
          THEN [raised |-> FALSE, value |-> 0 - HexVal(b)]
        ELSE IF a = " " /\ IsHexDigit(b)
          THEN [raised |-> FALSE, value |-> HexVal(b)]
        ELSE IF IsHexDigit(a) /\ b = " "
          THEN [raised |-> FALSE, value |-> HexVal(a)]
        ELSE [raised |-> TRUE, value |-> 0]

\* format(n, "02X") for -15 <= n <= 255
Format02X(n) ==
    IF n < 0 THEN <<"-", UpperHex[(0 - n) + 1]>>
    ELSE <<UpperHex[(n \div 16) + 1], UpperHex[(n % 16) + 1]>>

(***************************************************************************)
(* Style encoder: burn_subtitles.hex_to_ass and lines 198-201              *)
(***************************************************************************)
\* int(max(0, min(1, alpha)) * 255), alpha a numerator over OpDen
AlphaByte(alpha) == (Max(0, Min(OpDen, alpha)) * 255) \div OpDen

\* f"&H{aa:02X}{b:02X}{g:02X}{r:02X}"
PackedRGBOrder(aa, r, g, b) ==
    <<"&", "H">> \o Format02X(aa) \o Format02X(r) \o Format02X(g) \o Format02X(b)
Packed(aa, r, g, b) ==
    <<"&", "H">> \o Format02X(aa) \o Format02X(b) \o Format02X(g) \o Format02X(r)

hex_to_ass(hex_color, alpha) ==
    LET stripped == lstrip_hash(hex_color)
        hex == IF Len(stripped) # 6 THEN <<"F","F","F","F","F","F">> ELSE stripped
        r == int16(SubSeq(hex, 1, 2))
        g == int16(SubSeq(hex, 3, 4))
        b == int16(SubSeq(hex, 5, 6))
    IN  IF r.raised \/ g.raised \/ b.raised
          THEN [raised |-> TRUE, value |-> <<>>]
          ELSE [raised |-> FALSE,
                value |-> Packed(AlphaByte(alpha), r.value, g.value, b.value)]

\* 1.0 - max(0.0, min(1.0, bg_opacity))
BackAlphaNotInverted(bg) == Max(0, Min(OpDen, bg))
BackAlpha(bg) == OpDen - Max(0, Min(OpDen, bg))

Black == <<"0","0","0","0","0","0">>

\* lines 198-201: primary, back and the directive built from them
StyleEncode(c, bg) ==
    LET primary == hex_to_ass(c, 0)
        back    == hex_to_ass(Black, BackAlpha(bg))
    IN  IF primary.raised \/ back.raised
          THEN [raised |-> TRUE, PrimaryColour |-> <<>>, BackColour |-> <<>>]
          ELSE [raised |-> FALSE, PrimaryColour |-> primary.value,
                BackColour |-> back.value]

(***************************************************************************)
(* Inputs                                                                  *)
(***************************************************************************)
ColorChars == {"0", "f", "G", "+"}
Hashes(k)  == [j \in 1..k |-> "#"]
Colors     == {Hashes(k) \o body :
                 k \in 0..MaxHashes,
                 body \in UNION {[1..n -> ColorChars] : n \in 0..MaxColorLen}}

\* every opacity k / OpDen from just below 0 to just above 1
Opacities       == (0 - 2)..(OpDen + 2)
\* quarters of the range, and one value beyond either end
CoarseOpacities == {(q * OpDen) \div 4 : q \in 0..4} \cup {0 - OpDen, 2 * OpDen}

Uploads == [filename : {"", "clip.mp4"}, content : {<<"v", 1>>, <<"v", 2>>}]

NoFile     == <<>>                       \* an empty or deleted temp file
NoStyle    == [raised |-> FALSE, PrimaryColour |-> <<>>, BackColour |-> <<>>]

\* what a complete render of `v` under directive `st` leaves in out_path
Encoded(v, st) == <<"encoded", v, st.PrimaryColour, st.BackColour>>
\* what an interrupted render leaves there
Partial(v) == <<"partial", v>>

(***************************************************************************)
(* /api/burn: burn_subtitles, lines 146-234                                *)
(***************************************************************************)
ProbeOutcomes  == {"ok", "missing", "nonzero", "oserror", "hang"}
RenderOutcomes == {"ok", "missing", "nonzero", "crash", "oserror", "hang"}

\* _ffmpeg_available: subprocess.run(..., check=True) inside try / except
\* Exception.  "missing" is FileNotFoundError, "nonzero" CalledProcessError,
\* "oserror" any other exception of the call.
ffmpeg_available_catches_exit_only(outcome) ==
    IF outcome = "ok" THEN "True"
    ELSE IF outcome = "nonzero" THEN "False" ELSE "raises"
ffmpeg_available(outcome) ==
    IF outcome = "ok" THEN "True" ELSE "False"

\* the if at line 204
AfterProbe(available) ==
    CASE available = "True"   -> "render"
      [] available = "False"  -> "fallback"
      [] available = "raises" -> "error"

\* the try / except Exception of lines 205-222 around the render call
RenderAttempt(outcome) ==
    IF outcome = "ok" THEN "used" ELSE "fallback"

AfterRenderRetries(result) ==
    CASE result = "used"     -> "respond"
      [] result = "fallback" -> "render"
      [] result = "raises"   -> "error"
AfterRender(result) ==
    CASE result = "used"     -> "respond"
      [] result = "fallback" -> "fallback"
      [] result = "raises"   -> "error"

\* what the engine leaves in out_path (ffmpeg -y overwrites it as it goes)
RenderWrites(outcome, v, st, before) ==
    CASE outcome = "ok"                 -> Encoded(v, st)
      [] outcome \in {"crash", "hang"}  -> Partial(v)
      [] OTHER                          -> before

\* shutil.copy(src, dst): the new content of dst
shutil_copy_keeps_existing(src, dst) == IF dst # NoFile THEN dst ELSE src
shutil_copy(src, dst) == src

\* line 233
ResponseFilenameAlwaysSubtitled(used) == "subtitled.mp4"
ResponseFilename(used) == IF used THEN "subtitled.mp4" ELSE "video.mp4"

Failure(code) == [status |-> code, body |-> NoFile, filename |-> ""]

\* lines 161-201: reject an unnamed upload, save the upload, create the
\* output file, encode the style
Begin ==
    /\ pc = "start"
    /\ IF file.filename = ""
         THEN /\ pc' = "error"
              /\ response' = Failure(400)
              /\ UNCHANGED <<video, out, force_style>>
         ELSE \E c \in Colors, bg \in CoarseOpacities :
                LET st == StyleEncode(c, bg)
                IN  /\ video' = file.content
                    /\ out' = NoFile
                    /\ IF st.raised
                         THEN /\ pc' = "error"
                              /\ response' = Failure(500)
                              /\ UNCHANGED force_style
                         ELSE /\ pc' = "probe"
                              /\ force_style' = st
                              /\ UNCHANGED response
    /\ UNCHANGED <<file, used_ffmpeg, probeOutcome, renderOutcome, probeCalls,
                   renderCalls, styleVars, pairVars, srtVars>>

\* line 204: the availability probe; a probe that never exits never returns
\* (subprocess.run is called without a timeout)
Probe ==
    /\ pc = "probe"
    /\ \E o \in ProbeOutcomes :
         /\ probeOutcome' = o
         /\ probeCalls' = probeCalls + 1
         /\ pc' = IF o = "hang" THEN "probe_blocked"
                  ELSE AfterProbe(ffmpeg_available(o))
         /\ response' = IF pc' = "error" THEN Failure(500) ELSE response
    /\ UNCHANGED <<file, video, out, force_style, used_ffmpeg, renderOutcome,
                   renderCalls, styleVars, pairVars, srtVars>>

\* lines 205-219: the render call
Render ==
    /\ pc = "render"
    /\ \E o \in RenderOutcomes :
         /\ renderOutcome' = o
         /\ renderCalls' = renderCalls + 1
         /\ out' = RenderWrites(o, video, force_style, out)
         /\ pc' = IF o = "hang" THEN "render_blocked"
                  ELSE AfterRender(RenderAttempt(o))
         /\ used_ffmpeg' = (o # "hang" /\ RenderAttempt(o) = "used")
         /\ response' = IF pc' = "error" THEN Failure(500) ELSE response
    /\ UNCHANGED <<file, video, force_style, probeOutcome, probeCalls,
                   styleVars, pairVars, srtVars>>

\* lines 222 and 224: copy the saved upload over the output file
Fallback ==
    /\ pc = "fallback"
    /\ out' = shutil_copy(video, out)
    /\ pc' = "respond"
    /\ UNCHANGED <<file, video, force_style, used_ffmpeg, probeOutcome,
                   renderOutcome, probeCalls, renderCalls, response,
                   styleVars, pairVars, srtVars>>

\* lines 226-234: remove the temp inputs, name the download, respond
Respond ==
    /\ pc = "respond"
    /\ video' = NoFile
    /\ response' = [status |-> 200, body |-> out,
                    filename |-> ResponseFilename(used_ffmpeg)]
    /\ pc' = "done"
    /\ UNCHANGED <<file, out, force_style, used_ffmpeg, probeOutcome,
                   renderOutcome, probeCalls, renderCalls,
                   styleVars, pairVars, srtVars>>

StyleIdle == color = <<>> /\ bg_opacity = 0 /\ styled = <<>>
PairIdle  == opacityA = 0 /\ opacityB = 0 /\ backA = <<>> /\ backB = <<>>
SrtIdle   == duration = 0 /\ i = 0 /\ cues = <<>> /\ lines = <<>> /\ srt = <<>>
BurnIdle  ==
    /\ pc = "idle" /\ file = [filename |-> "", content |-> NoFile]
    /\ video = NoFile /\ out = NoFile /\ force_style = NoStyle
    /\ used_ffmpeg = FALSE /\ probeOutcome = "none" /\ renderOutcome = "none"
    /\ probeCalls = 0 /\ renderCalls = 0 /\ response = Failure(0)

Init ==
    /\ pc = "start"
    /\ file \in Uploads
    /\ video = NoFile /\ out = NoFile /\ force_style = NoStyle
    /\ used_ffmpeg = FALSE
    /\ probeOutcome = "none" /\ renderOutcome = "none"
    /\ probeCalls = 0 /\ renderCalls = 0
    /\ response = Failure(0)
    /\ StyleIdle /\ PairIdle /\ SrtIdle

Next == Begin \/ Probe \/ Render \/ Fallback \/ Respond

Spec == Init /\ [][Next]_vars

\* a request that has begun runs on to its end unless it is blocked in a
\* subprocess call (the handler is straight-line code)
FairSpec == Spec /\ WF_vars(Probe \/ Render \/ Fallback \/ Respond)

(***************************************************************************)
(* The style encoder on its own: lines 187-201 for one (color, bg_opacity) *)
(***************************************************************************)
EncodeStyle ==
    /\ styled = <<>>
    /\ styled' = <<StyleEncode(color, bg_opacity)>>
    /\ UNCHANGED <<color, bg_opacity, burnVars, pairVars, srtVars>>

StyleInit ==
    /\ color \in Colors
    /\ bg_opacity \in CoarseOpacities
    /\ styled = <<>>
    /\ BurnIdle /\ PairIdle /\ SrtIdle

StyleNext == EncodeStyle

StyleSpec == StyleInit /\ [][StyleNext]_vars

(***************************************************************************)
(* The background colour (line 199) of two requests                        *)
(***************************************************************************)
DefaultColor == <<"#","F","F","F","F","F","F">>     \* Form("#FFFFFF")

EncodeBackA ==
    /\ backA = <<>>
    /\ backA' = StyleEncode(DefaultColor, opacityA).BackColour
    /\ UNCHANGED <<opacityA, opacityB, backB, burnVars, styleVars, srtVars>>

EncodeBackB ==
    /\ backB = <<>>
    /\ backB' = StyleEncode(DefaultColor, opacityB).BackColour
    /\ UNCHANGED <<opacityA, opacityB, backA, burnVars, styleVars, srtVars>>

PairInit ==
    /\ opacityA \in Opacities
    /\ opacityB \in Opacities
    /\ backA = <<>> /\ backB = <<>>
    /\ BurnIdle /\ StyleIdle /\ SrtIdle

PairNext == EncodeBackA \/ EncodeBackB

PairSpec == PairInit /\ [][PairNext]_vars

(***************************************************************************)
(* _generate_demo_srt, lines 88-111                                        *)
(***************************************************************************)
Seconds(n) == n * TicksPerSecond

RECURSIVE Decimal(_)
Decimal(n) ==
    IF n < 10 THEN <<UpperHex[n + 1]>>
    ELSE Decimal(n \div 10) \o <<UpperHex[(n % 10) + 1]>>

RECURSIVE ZeroPad(_, _)
ZeroPad(s, width) ==
    IF Len(s) < width THEN ZeroPad(<<"0">> \o s, width) ELSE s

\* format(n, "02") and format(n, "03") for n >= 0
FormatInt(n, width) == ZeroPad(Decimal(n), width)

\* lines 97-100
ts_h(t)  == t \div Seconds(3600)
ts_m(t)  == (t % Seconds(3600)) \div Seconds(60)
ts_s(t)  == (t % Seconds(60)) \div TicksPerSecond
ts_ms_rounded(t) == (2 * (t % TicksPerSecond) * 1000 + TicksPerSecond) \div (2 * TicksPerSecond)
ts_ms(t) == ((t % TicksPerSecond) * 1000) \div TicksPerSecond

\* line 101
ts(t) ==
    FormatInt(ts_h(t), 2) \o <<":">> \o FormatInt(ts_m(t), 2) \o <<":">>
      \o FormatInt(ts_s(t), 2) \o <<",">> \o FormatInt(ts_ms(t), 3)

\* lines 90-94; a caption is kept as one token
segments(d) ==
    << [start |-> Seconds(0), end |-> Min(Seconds(3), d),
        text |-> <<"Namaste! Yeh demo transcription hai.">>],
       [start |-> Seconds(3), end |-> Min(Seconds(6), d),
        text |-> <<"Aap yahan subtitles edit kar sakte ho.">>],
       [start |-> Seconds(6), end |-> d,
        text |-> <<"Jab ready ho, burn-in karke download kar lo.">>] >>

\* lines 105-106
CueEndOnlyIfBefore(start, end) == IF end < start THEN start + Seconds(1) ELSE end
CueEnd(start, end) == IF end <= start THEN start + Seconds(1) ELSE end

Arrow == <<" ", "-", "-", ">", " ">>

\* "\n".join(ls)
RECURSIVE Join(_)
Join(ls) ==
    IF ls = <<>> THEN <<>>
    ELSE IF Len(ls) = 1 THEN ls[1]
    ELSE ls[1] \o <<"\n">> \o Join(Tail(ls))

\* one iteration of the for loop, lines 104-110
GenerateCue ==
    /\ i \in 1..3
    /\ LET seg == segments(duration)[i]
           end == CueEnd(seg.start, seg.end)
       IN  /\ cues' = Append(cues, [start |-> seg.start, end |-> end])
           /\ lines' = lines \o << Decimal(i),
                                   ts(seg.start) \o Arrow \o ts(end),
                                   seg.text,
                                   <<>> >>
    /\ i' = i + 1
    /\ UNCHANGED <<duration, srt, burnVars, styleVars, pairVars>>

\* line 111
ReturnSrt ==
    /\ i = 4
    /\ srt' = Join(lines)
    /\ i' = 5
    /\ UNCHANGED <<duration, cues, lines, burnVars, styleVars, pairVars>>

\* whole seconds around the 3 s and 6 s boundaries and up to a minute, whole
\* minutes up to an hour, whole hours; each with a fraction of a second
FracTicks == {0, 1, TicksPerMs, TicksPerMs + 1, 250 * TicksPerMs,
              250 * TicksPerMs + 1, TicksPerSecond - 1}
Durations ==
    { Seconds(3600 * h + 60 * m + sec) + f :
        h \in (0..MaxHours) \cup {100}, m \in {0, 1, 59},
        sec \in {0, 1, 2, 3, 5, 6, 7, 9, 59}, f \in FracTicks }
    \cup {0 - Seconds(2), 0 - 1}

SrtInit ==
    /\ duration \in Durations
    /\ i = 1 /\ cues = <<>> /\ lines = <<>> /\ srt = <<>>
    /\ BurnIdle /\ StyleIdle /\ PairIdle

SrtNext == GenerateCue \/ ReturnSrt

SrtSpec == SrtInit /\ [][SrtNext]_vars

(***************************************************************************)
(* Properties of the render orchestrator                                   *)
(***************************************************************************)
EngineFailures == {"missing", "nonzero", "crash", "oserror"}
Blocked        == pc \in {"probe_blocked", "render_blocked"}
Done           == pc = "done" /\ response.status = 200
AfterFallback  == {"fallback", "respond", "done"}

\* C1: once the engine has been invoked for a request, whatever it does
\* (binary missing, non-zero exit, any exception of the probe or of the
\* render call), the request reaches Done with a result, unless the engine
\* never returns; a failed invocation ends in the pass-through result and
\* never in an error.
C1_EngineFailureBecomesFallback ==
    (probeCalls > 0) ~>
        \/ Blocked
        \/ /\ Done
           /\ (probeOutcome \in EngineFailures \/ renderOutcome \in EngineFailures)
                => (~used_ffmpeg /\ response.body = file.content)

C1_Witness ==
    /\ Done
    /\ probeOutcome = "missing"
    /\ response.body = file.content

\* C2: in Done, a failed probe gives used_ffmpeg = FALSE and an output equal
\* to the upload; a successful probe and render give used_ffmpeg = TRUE;
\* and whenever used_ffmpeg = FALSE the output equals the upload, also after
\* a render that failed with partial output written.
C2_FallbackInvariant ==
    Done =>
        /\ probeOutcome \in EngineFailures
             => (~used_ffmpeg /\ response.body = file.content)
        /\ (probeOutcome = "ok" /\ renderOutcome = "ok") => used_ffmpeg
        /\ ~used_ffmpeg => response.body = file.content
        /\ used_ffmpeg => response.body = Encoded(file.content, force_style)

C2_Witness ==
    /\ Done
    /\ renderOutcome = "crash"
    /\ ~used_ffmpeg
    /\ response.body = file.content

\* C3: the download is named subtitled.mp4 exactly when the render
\* succeeded, and video.mp4 exactly when the fallback was taken, whether the
\* engine was absent or the render failed.
C3_FilenameTellsPath ==
    Done =>
        /\ response.filename = "subtitled.mp4"
             <=> (used_ffmpeg /\ probeOutcome = "ok" /\ renderOutcome = "ok")
        /\ response.filename = "video.mp4"
             <=> (probeOutcome \in EngineFailures \/ renderOutcome \in EngineFailures)
        /\ response.filename \in {"subtitled.mp4", "video.mp4"}

C3_Witness ==
    /\ Done
    /\ probeOutcome = "ok"
    /\ renderOutcome = "nonzero"
    /\ response.filename = "video.mp4"

\* C4: a request invokes the render at most once and only after its probe
\* succeeded; a failed probe goes to the fallback with no render invoked,
\* and a failed render goes to the fallback and is not tried again.
C4_SingleRenderAttempt ==
    /\ probeCalls <= 1
    /\ renderCalls <= 1
    /\ renderCalls > 0 => (probeCalls = 1 /\ probeOutcome = "ok")
    /\ pc = "render" => (probeOutcome = "ok" /\ renderCalls = 0)
    /\ probeOutcome \in EngineFailures
         => (renderCalls = 0 /\ pc \in AfterFallback)
    /\ renderOutcome \in EngineFailures
         => (renderCalls = 1 /\ pc \in AfterFallback)

C4_Witness ==
    /\ Done
    /\ renderOutcome = "nonzero"
    /\ renderCalls = 1

\* C5: a probe or a render that does not complete in time is treated as a
\* failure: the request falls back and reaches Done with
\* used_ffmpeg = FALSE.
C5_HangingEngineFallsBack ==
    Blocked ~> (Done /\ ~used_ffmpeg)

(***************************************************************************)
(* Properties of the style encoder                                         *)
(***************************************************************************)
\* a colour text as the data model has it: six hex digits after an optional
\* leading '#'
ColorBody(c)  == IF c # <<>> /\ Head(c) = "#" THEN Tail(c) ELSE c
WellFormed(c) ==
    /\ Len(ColorBody(c)) = 6
    /\ \A k \in 1..6 : IsHexDigit(ColorBody(c)[k])
Channel(c, n) ==
    16 * HexVal(ColorBody(c)[2 * n - 1]) + HexVal(ColorBody(c)[2 * n])
HexByte(n) == <<UpperHex[(n \div 16) + 1], UpperHex[(n % 16) + 1]>>

WhitePrimary == <<"&","H","0","0","F","F","F","F","F","F">>

\* C6: every colour that is not exactly six hex digits after an optional
\* leading '#' is encoded as FFFFFF, and the request goes on to the probe.
C6_MalformedColorIsWhite ==
    (styled # <<>> /\ ~WellFormed(color)) =>
        /\ ~styled[1].raised
        /\ styled[1].PrimaryColour = WhitePrimary

\* the clamped alpha fraction of the background, as a numerator over OpDen
ClampedOpacity(bg) == Max(0, Min(OpDen, bg))
\* round(num / den), halves to even
RoundDiv(num, den) ==
    LET q == num \div den
        r == num % den
    IN  IF 2 * r > den THEN q + 1
        ELSE IF 2 * r = den THEN q + (q % 2)
        ELSE q

ByteAt(packed, n) == 16 * HexVal(packed[2 * n + 1]) + HexVal(packed[2 * n + 2])

\* C10 as stated: for an RRGGBB colour the packed values are &H AA BB GG RR
\* in upper-case hex, the primary with AA = 00, the background black with
\* AA = round((1 - clamp(bg_opacity)) * 255).
C10_AlphaIsRounded ==
    (styled # <<>> /\ WellFormed(color)) =>
        /\ ~styled[1].raised
        /\ styled[1].PrimaryColour =
             <<"&", "H">> \o HexByte(0) \o HexByte(Channel(color, 3))
               \o HexByte(Channel(color, 2)) \o HexByte(Channel(color, 1))
        /\ styled[1].BackColour =
             <<"&", "H">>
               \o HexByte(RoundDiv((OpDen - ClampedOpacity(bg_opacity)) * 255, OpDen))
               \o HexByte(0) \o HexByte(0) \o HexByte(0)

\* C10, amended: as above, with AA = the integer part of
\* (1 - clamp(bg_opacity)) * 255 (truncated, not rounded).
C10_AlphaIsTruncated ==
    (styled # <<>> /\ WellFormed(color)) =>
        /\ ~styled[1].raised
        /\ styled[1].PrimaryColour =
             <<"&", "H">> \o HexByte(0) \o HexByte(Channel(color, 3))
               \o HexByte(Channel(color, 2)) \o HexByte(Channel(color, 1))
        /\ styled[1].BackColour =
             <<"&", "H">>
               \o HexByte(((OpDen - ClampedOpacity(bg_opacity)) * 255) \div OpDen)
               \o HexByte(0) \o HexByte(0) \o HexByte(0)

C10_Witness ==
    /\ styled # <<>>
    /\ WellFormed(color)
    /\ Channel(color, 1) # Channel(color, 3)
    /\ 2 * (((OpDen - ClampedOpacity(bg_opacity)) * 255) % OpDen) >= OpDen
    /\ ByteAt(styled[1].PrimaryColour, 4) = Channel(color, 1)

BothEncoded == backA # <<>> /\ backB # <<>>

\* C8 as stated: of two opacities a < b in [0,1] the larger has the strictly
\* smaller background alpha byte; opacity 0 gives FF and opacity 1 gives 00;
\* an opacity outside [0,1] is encoded as the nearer end.
C8_AlphaStrictlyDecreasing ==
    BothEncoded =>
        /\ (0 <= opacityA /\ opacityA < opacityB /\ opacityB <= OpDen)
             => ByteAt(backB, 1) < ByteAt(backA, 1)
        /\ opacityA <= 0 => ByteAt(backA, 1) = 255
        /\ opacityA >= OpDen => ByteAt(backA, 1) = 0

\* C8, amended: the larger opacity never has the larger alpha byte (nearby
\* opacities may share one); the ends and the clamping are as stated.
C8_AlphaNeverIncreasing ==
    BothEncoded =>
        /\ opacityA < opacityB => ByteAt(backB, 1) <= ByteAt(backA, 1)
        /\ opacityA <= 0 => ByteAt(backA, 1) = 255
        /\ opacityA >= OpDen => ByteAt(backA, 1) = 0

C8_Witness ==
    /\ BothEncoded
    /\ 0 < opacityA /\ opacityA < opacityB /\ opacityB < OpDen
    /\ ByteAt(backB, 1) < ByteAt(backA, 1)

(***************************************************************************)
(* Properties of the subtitle formatter                                    *)
(***************************************************************************)
\* the pieces of s between the occurrences of sep
RECURSIVE Split(_, _)
Split(s, sep) ==
    IF \A k \in 1..Len(s) : s[k] # sep THEN <<s>>
    ELSE LET p == CHOOSE k \in 1..Len(s) :
                    s[k] = sep /\ \A j \in 1..(k - 1) : s[j] # sep
         IN  <<SubSeq(s, 1, p - 1)>> \o Split(SubSeq(s, p + 1, Len(s)), sep)

IsDecimal(s) == s # <<>> /\ \A k \in 1..Len(s) : IsHexDigit(s[k]) /\ HexVal(s[k]) < 10

RECURSIVE ParseDecimal(_)
ParseDecimal(s) ==
    IF s = <<>> THEN 0
    ELSE 10 * ParseDecimal(SubSeq(s, 1, Len(s) - 1)) + HexVal(s[Len(s)])

\* the start and end stamps of the timing line of cue n
StampOf(n, which) == Split(lines[4 * n - 2], " ")[IF which = "start" THEN 1 ELSE 3]
\* <<HH, MM, SS, mmm>> of a stamp
Fields(stamp) ==
    LET hms == Split(stamp, ":")
        sms == Split(hms[3], ",")
    IN  <<hms[1], hms[2], sms[1], sms[2]>>
\* the milliseconds a stamp stands for
DecodeMs(stamp) ==
    LET f == Fields(stamp)
    IN  ((ParseDecimal(f[1]) * 60 + ParseDecimal(f[2])) * 60 + ParseDecimal(f[3])) * 1000
          + ParseDecimal(f[4])

StampIsRight(stamp, t) ==
    /\ Len(Split(stamp, ":")) = 3
    /\ Len(Split(Split(stamp, ":")[3], ",")) = 2
    /\ \A n \in 1..4 : IsDecimal(Fields(stamp)[n])
    /\ Len(Fields(stamp)[1]) = Max(2, Len(Decimal(t \div Seconds(3600))))
    /\ Len(Fields(stamp)[2]) = 2
    /\ Len(Fields(stamp)[3]) = 2
    /\ Len(Fields(stamp)[4]) = 3
    /\ ParseDecimal(Fields(stamp)[1]) = t \div Seconds(3600)
    /\ ParseDecimal(Fields(stamp)[2]) = (t % Seconds(3600)) \div Seconds(60)
    /\ ParseDecimal(Fields(stamp)[3]) = (t % Seconds(60)) \div Seconds(1)
    /\ ParseDecimal(Fields(stamp)[4]) = ((t % Seconds(1)) * 1000) \div Seconds(1)
    /\ DecodeMs(stamp) * TicksPerMs <= t
    /\ t < (DecodeMs(stamp) + 1) * TicksPerMs

C9_TimestampRoundTrip ==
    /\ \A n \in 1..Len(cues) :
         /\ Len(Split(lines[4 * n - 2], " ")) = 3
         /\ StampIsRight(StampOf(n, "start"), cues[n].start)
         /\ StampIsRight(StampOf(n, "end"), cues[n].end)
    /\ (duration = Seconds(3661) + 250 * TicksPerMs /\ Len(cues) = 3)
         => StampOf(3, "end") = <<"0","1",":","0","1",":","0","1",",","2","5","0">>

C9_Witness ==
    /\ i = 5
    /\ duration = Seconds(3661) + 250 * TicksPerMs + 1
    /\ StampOf(3, "end") = <<"0","1",":","0","1",":","0","1",",","2","5","0">>

====
